---- MODULE Spec2Model ----
(***************************************************************************)
(* Model of the F1 historical data MCP server (src/OpenF1MCPServer.py):    *)
(* the tool table of list_tools, the dispatcher call_tool with its five    *)
(* parameter builders and record renderers, and fetch_data with its scoped *)
(* HTTP client.                                                            *)
(*                                                                         *)
(* Text is the Python string itself (a sequence of characters).            *)
(* A JSON / Python value is a record of one fixed shape (tag t and one     *)
(* payload field per type), a dict is a function from keys to values.      *)
(***************************************************************************)
EXTENDS Integers, Sequences, FiniteSets, TLC

VARIABLES calls, callSeq, openClients, clientLog

vars == <<calls, callSeq, openClients, clientLog>>

(***************************************************************************)
(* Bounds of the model.                                                    *)
(***************************************************************************)
\* calls the transport delivers in one behaviour
MaxCalls == 2
\* longest multi-record response array
MaxRecords == 2

(***************************************************************************)
(* Python / JSON values.                                                   *)
(***************************************************************************)
NoneV == [t |-> "null", i |-> 0, b |-> FALSE, s |-> "", l |-> <<>>]

IntV(n) == [t |-> "int", i |-> n, b |-> FALSE, s |-> "", l |-> <<>>]

\* a float with one fractional digit, held in tenths: FloatV(300) is 30.0
FloatV(n) == [t |-> "float", i |-> n, b |-> FALSE, s |-> "", l |-> <<>>]

BoolV(x) == [t |-> "bool", i |-> 0, b |-> x, s |-> "", l |-> <<>>]

StrV(x) == [t |-> "str", i |-> 0, b |-> FALSE, s |-> x, l |-> <<>>]

\* a JSON array of integers (the segments_sector_N fields)
ListV(q) == [t |-> "list", i |-> 0, b |-> FALSE, s |-> "", l |-> q]

RECURSIVE JoinInts(_)
JoinInts(q) ==
    IF q = <<>> THEN ""
    ELSE IF Len(q) = 1 THEN ToString(q[1])
    ELSE ToString(q[1]) \o ", " \o JoinInts(Tail(q))

\* str(v), the conversion an f-string applies to {v}
PyStr(v) ==
    CASE v.t = "null" -> "None"
      [] v.t = "int" -> ToString(v.i)
      [] v.t = "float" -> ToString(v.i \div 10) \o "." \o ToString(v.i % 10)
      [] v.t = "bool" -> (IF v.b THEN "True" ELSE "False")
      [] v.t = "str" -> v.s
      [] v.t = "list" -> "[" \o JoinInts(v.l) \o "]"

\* bool(v), the test of `if v:`
Truthy(v) ==
    CASE v.t = "null" -> FALSE
      [] v.t = "int" -> v.i # 0
      [] v.t = "float" -> v.i # 0
      [] v.t = "bool" -> v.b
      [] v.t = "str" -> v.s # ""
      [] v.t = "list" -> v.l # <<>>

\* dict.get(k): None for a missing key
Get(d, k) == IF k \in DOMAIN d THEN d[k] ELSE NoneV

EmptyDict == <<>>

(***************************************************************************)
(* String helpers (a string is a sequence of characters).                  *)
(***************************************************************************)
\* sep.join(parts)
RECURSIVE Join(_, _)
Join(parts, sep) ==
    IF parts = <<>> THEN ""
    ELSE IF Len(parts) = 1 THEN parts[1]
    ELSE parts[1] \o sep \o Join(Tail(parts), sep)

\* s * n
RECURSIVE Repeat(_, _)
Repeat(s, n) == IF n = 0 THEN "" ELSE s \o Repeat(s, n - 1)

\* "".join(parts)
Concat(parts) == Join(parts, "")

(***************************************************************************)
(* Configuration and the tool table (list_tools).                          *)
(***************************************************************************)
BASE_URL == "https://api.openf1.org/v1"

\* the width of the separator line, "-" * 50
SeparatorWidth == 50

ToolNames == {"get_sessions", "get_drivers", "get_laps", "get_pit_stops", "get_overtakes"}

\* the property names of each tool's inputSchema
InputSchema(name) ==
    CASE name = "get_sessions" ->
           {"year", "country_name", "circuit_short_name", "session_name",
            "session_key", "date_start"}
      [] name = "get_drivers" -> {"session_key", "driver_number", "team_name"}
      [] name = "get_laps" -> {"session_key", "driver_number", "lap_number"}
      [] name = "get_pit_stops" -> {"session_key", "driver_number", "pit_duration"}
      [] name = "get_overtakes" ->
           {"session_key", "overtaking_driver_number", "overtaken_driver_number"}
      [] OTHER -> {}

\* mutant: get_pit_stops fetches "pit_stops"
Endpoint_PitStops(name) ==
    CASE name = "get_sessions" -> "sessions"
      [] name = "get_drivers" -> "drivers"
      [] name = "get_laps" -> "laps"
      [] name = "get_pit_stops" -> "pit_stops"
      [] name = "get_overtakes" -> "overtakes"

\* the endpoint path each branch of call_tool passes to fetch_data
Endpoint(name) ==
    CASE name = "get_sessions" -> "sessions"
      [] name = "get_drivers" -> "drivers"
      [] name = "get_laps" -> "laps"
      [] name = "get_pit_stops" -> "pit"
      [] name = "get_overtakes" -> "overtakes"

(***************************************************************************)
(* Parameter building: `if k in arguments: params[k] = arguments[k]`.      *)
(***************************************************************************)
CopyKeys(arguments, keys) ==
    [k \in keys \cap DOMAIN arguments |-> arguments[k]]

SessionsParams(arguments) ==
    CopyKeys(arguments, {"year", "country_name", "circuit_short_name",
                         "session_name", "session_key", "date_start"})

DriversParams(arguments) ==
    CopyKeys(arguments, {"session_key", "driver_number", "team_name"})

LapsParams(arguments) ==
    CopyKeys(arguments, {"session_key", "driver_number", "lap_number"})

\* the upper bound: params["pit_duration"] = f"<={arguments['pit_duration']}"
UpperBound(v) == StrV("<=" \o PyStr(v))

\* mutant: pit_duration is copied like the other keys
PitStopsParams_NoOperator(arguments) ==
    CopyKeys(arguments, {"session_key", "driver_number", "pit_duration"})

PitStopsParams(arguments) ==
    LET copied == CopyKeys(arguments, {"session_key", "driver_number"})
    IN  IF "pit_duration" \in DOMAIN arguments
        THEN copied @@ ("pit_duration" :> UpperBound(arguments["pit_duration"]))
        ELSE copied

OvertakesParams(arguments) ==
    CopyKeys(arguments, {"session_key", "overtaking_driver_number",
                         "overtaken_driver_number"})

BuildParams(name, arguments) ==
    CASE name = "get_sessions" -> SessionsParams(arguments)
      [] name = "get_drivers" -> DriversParams(arguments)
      [] name = "get_laps" -> LapsParams(arguments)
      [] name = "get_pit_stops" -> PitStopsParams(arguments)
      [] name = "get_overtakes" -> OvertakesParams(arguments)

(***************************************************************************)
(* The header of a non-empty result.                                       *)
(***************************************************************************)
\* filters.append(f"<prefix>{arguments[k]}<suffix>") when k is in arguments
Fragment(arguments, k, prefix, suffix) ==
    IF k \in DOMAIN arguments
    THEN <<prefix \o PyStr(arguments[k]) \o suffix>>
    ELSE <<>>

\* filter_str = " for " + ", ".join(filters) if filters else ""
FilterStr(filters) ==
    IF filters # <<>> THEN " for " \o Join(filters, ", ") ELSE ""

SessionsHeader(n, arguments) ==
    "Found " \o ToString(n) \o " session(s):\n\n"

DriversHeader(n, arguments) ==
    LET session_info ==
            IF "session_key" \in DOMAIN arguments
            THEN " for session " \o PyStr(arguments["session_key"])
            ELSE ""
    IN  "Found " \o ToString(n) \o " driver(s)" \o session_info \o ":\n\n"

\* mutant: the driver_number fragment is forgotten
LapsHeader_NoDriver(n, arguments) ==
    LET filters == Fragment(arguments, "session_key", "session ", "")
                   \o Fragment(arguments, "lap_number", "lap ", "")
    IN  "Found " \o ToString(n) \o " lap(s)" \o FilterStr(filters) \o ":\n\n"

LapsHeader(n, arguments) ==
    LET filters == Fragment(arguments, "session_key", "session ", "")
                   \o Fragment(arguments, "driver_number", "driver #", "")
                   \o Fragment(arguments, "lap_number", "lap ", "")
    IN  "Found " \o ToString(n) \o " lap(s)" \o FilterStr(filters) \o ":\n\n"

\* the source writes the sign U+2264 where this string has "<="
PitStopsHeader(n, arguments) ==
    LET filters == Fragment(arguments, "session_key", "session ", "")
                   \o Fragment(arguments, "driver_number", "driver #", "")
                   \o Fragment(arguments, "pit_duration", "duration <= ", "s")
    IN  "Found " \o ToString(n) \o " pit stop(s)" \o FilterStr(filters) \o ":\n\n"

OvertakesHeader(n, arguments) ==
    LET filters == Fragment(arguments, "session_key", "session ", "")
                   \o Fragment(arguments, "overtaking_driver_number",
                               "overtaking driver #", "")
                   \o Fragment(arguments, "overtaken_driver_number",
                               "overtaken driver #", "")
    IN  "Found " \o ToString(n) \o " overtake(s)" \o FilterStr(filters) \o ":\n\n"

Header(name, n, arguments) ==
    CASE name = "get_sessions" -> SessionsHeader(n, arguments)
      [] name = "get_drivers" -> DriversHeader(n, arguments)
      [] name = "get_laps" -> LapsHeader(n, arguments)
      [] name = "get_pit_stops" -> PitStopsHeader(n, arguments)
      [] name = "get_overtakes" -> OvertakesHeader(n, arguments)

(***************************************************************************)
(* Record rendering: one `result += f"<label>{record.get(field)}<suffix>\n"`*)
(* per line, under the condition the source puts before it.                *)
(***************************************************************************)
Line(rec, label, field, suffix) ==
    label \o PyStr(Get(rec, field)) \o suffix \o "\n"

\* if record.get(field):
IfTruthy(rec, label, field, suffix) ==
    IF Truthy(Get(rec, field)) THEN Line(rec, label, field, suffix) ELSE ""

\* mutant: a truthiness test where the source tests `is not None`
IfNotNone_Truthy(rec, label, field, suffix) ==
    IF Truthy(Get(rec, field)) THEN Line(rec, label, field, suffix) ELSE ""

\* if record.get(field) is not None:
IfNotNone(rec, label, field, suffix) ==
    IF Get(rec, field).t # "null" THEN Line(rec, label, field, suffix) ELSE ""

\* if field in record:
IfIn(rec, label, field, suffix) ==
    IF field \in DOMAIN rec THEN Line(rec, label, field, suffix) ELSE ""

\* "-" * 50 + "\n\n"
Separator == Repeat("-", SeparatorWidth) \o "\n\n"

RenderSession(session) ==
    Line(session, "Session Key: ", "session_key", "")
    \o Line(session, "Name: ", "session_name", "")
    \o Line(session, "Type: ", "session_type", "")
    \o Line(session, "Date: ", "date_start", "")
    \o Line(session, "Location: ", "location", "")
    \o Line(session, "Country: ", "country_name", "")
    \o Line(session, "Circuit: ", "circuit_short_name", "")
    \o Line(session, "Year: ", "year", "")
    \o Line(session, "Meeting Key: ", "meeting_key", "")
    \o Separator

RenderDriver(driver) ==
    Line(driver, "Driver Number: ", "driver_number", "")
    \o Line(driver, "Name: ", "full_name", "")
    \o Line(driver, "Abbreviation: ", "name_acronym", "")
    \o Line(driver, "Team: ", "team_name", "")
    \o Line(driver, "Country: ", "country_code", "")
    \o Line(driver, "Headshot: ", "headshot_url", "")
    \o IfIn(driver, "Session Key: ", "session_key", "")
    \o Separator

RenderLap(lap) ==
    Line(lap, "Lap Number: ", "lap_number", "")
    \o Line(lap, "Driver Number: ", "driver_number", "")
    \o Line(lap, "Session Key: ", "session_key", "")
    \o IfTruthy(lap, "Lap Duration: ", "lap_duration", " seconds")
    \o IfTruthy(lap, "Sector 1: ", "duration_sector_1", " seconds")
    \o IfTruthy(lap, "Sector 2: ", "duration_sector_2", " seconds")
    \o IfTruthy(lap, "Sector 3: ", "duration_sector_3", " seconds")
    \o IfTruthy(lap, "Sector 1 Segments: ", "segments_sector_1", "")
    \o IfTruthy(lap, "Sector 2 Segments: ", "segments_sector_2", "")
    \o IfTruthy(lap, "Sector 3 Segments: ", "segments_sector_3", "")
    \o IfNotNone(lap, "Speed Trap 1 (I1): ", "i1_speed", " km/h")
    \o IfNotNone(lap, "Speed Trap 2 (I2): ", "i2_speed", " km/h")
    \o IfNotNone(lap, "Speed Trap (ST): ", "st_speed", " km/h")
    \o IfNotNone(lap, "Pit Out Lap: ", "is_pit_out_lap", "")
    \o IfTruthy(lap, "Start Time: ", "date_start", "")
    \o Separator

RenderPitStop(pit) ==
    Line(pit, "Driver Number: ", "driver_number", "")
    \o Line(pit, "Session Key: ", "session_key", "")
    \o Line(pit, "Lap Number: ", "lap_number", "")
    \o IfNotNone(pit, "Pit Duration: ", "pit_duration", " seconds")
    \o IfTruthy(pit, "Time: ", "date", "")
    \o IfNotNone(pit, "Meeting Key: ", "meeting_key", "")
    \o Separator

RenderOvertake(overtake) ==
    Line(overtake, "Overtaking Driver: #", "overtaking_driver_number", "")
    \o Line(overtake, "Overtaken Driver: #", "overtaken_driver_number", "")
    \o Line(overtake, "Session Key: ", "session_key", "")
    \o IfNotNone(overtake, "Lap Number: ", "lap_number", "")
    \o IfTruthy(overtake, "Time: ", "date", "")
    \o IfNotNone(overtake, "Meeting Key: ", "meeting_key", "")
    \o Separator

RenderRecord(name, rec) ==
    CASE name = "get_sessions" -> RenderSession(rec)
      [] name = "get_drivers" -> RenderDriver(rec)
      [] name = "get_laps" -> RenderLap(rec)
      [] name = "get_pit_stops" -> RenderPitStop(rec)
      [] name = "get_overtakes" -> RenderOvertake(rec)

\* the text returned when `not data`
NoResults(name) ==
    CASE name = "get_sessions" -> "No sessions found matching the criteria."
      [] name = "get_drivers" -> "No drivers found matching the criteria."
      [] name = "get_laps" -> "No lap data found matching the criteria."
      [] name = "get_pit_stops" -> "No pit stop data found matching the criteria."
      [] name = "get_overtakes" -> "No overtake data found matching the criteria."

\* mutant: the cause str(e) is left out of the message
ErrorText_NoCause(name, message) ==
    CASE name = "get_sessions" -> "Error fetching sessions: "
      [] name = "get_drivers" -> "Error fetching drivers: "
      [] name = "get_laps" -> "Error fetching lap data: "
      [] name = "get_pit_stops" -> "Error fetching pit stop data: "
      [] name = "get_overtakes" -> "Error fetching overtake data: "

\* the text of each `except httpx.HTTPError as e` branch
ErrorText(name, message) ==
    CASE name = "get_sessions" -> "Error fetching sessions: " \o message
      [] name = "get_drivers" -> "Error fetching drivers: " \o message
      [] name = "get_laps" -> "Error fetching lap data: " \o message
      [] name = "get_pit_stops" -> "Error fetching pit stop data: " \o message
      [] name = "get_overtakes" -> "Error fetching overtake data: " \o message

\* the else branch of call_tool
UnknownTool(name) == "Unknown tool: " \o name

(***************************************************************************)
(* fetch_data: one GET through a client scoped to the call.                *)
(*                                                                         *)
(* What the network hands back is a record [kind, err, status, body]:      *)
(* kind "failure" is an exception of client.get (err names it), kind       *)
(* "response" an HTTP response.  A body is [form, items]: form "invalid"   *)
(* is text that is no JSON, "null" the JSON null, "object" a JSON object   *)
(* (items are its keys, which is what iterating a dict yields) and "array" *)
(* a JSON array; an item is [obj, rec], rec the dict of a JSON object.     *)
(***************************************************************************)
\* the exception classes below httpx.HTTPError that the model raises
HTTPErrors == {"ConnectError", "ReadTimeout", "HTTPStatusError"}

\* url = f"{BASE_URL}/{endpoint}"
Url(endpoint) == BASE_URL \o "/" \o endpoint

\* the order in which call_tool inserts the keys into params
ParamOrder(name) ==
    CASE name = "get_sessions" ->
           <<"year", "country_name", "circuit_short_name", "session_name",
             "session_key", "date_start">>
      [] name = "get_drivers" -> <<"session_key", "driver_number", "team_name">>
      [] name = "get_laps" -> <<"session_key", "driver_number", "lap_number">>
      [] name = "get_pit_stops" -> <<"session_key", "driver_number", "pit_duration">>
      [] name = "get_overtakes" ->
           <<"session_key", "overtaking_driver_number", "overtaken_driver_number">>

\* percent-encoding of the characters the modelled values hold outside the
\* unreserved set
QuoteChar(ch) ==
    CASE ch = "<" -> "%3C"
      [] ch = "=" -> "%3D"
      [] ch = " " -> "%20"
      [] OTHER -> ch

Quote(s) == Concat([i \in 1..Len(s) |-> QuoteChar(SubSeq(s, i, i))])

\* the query string client.get(url, params=params) appends to the URL
QueryString(name, params) ==
    LET order == ParamOrder(name)
        present == SelectSeq(order, LAMBDA k : k \in DOMAIN params)
        pairs == [i \in 1..Len(present) |->
                    present[i] \o "=" \o Quote(PyStr(params[present[i]]))]
    IN  IF pairs = <<>> THEN "" ELSE "?" \o Join(pairs, "&")

ErrorType(status) ==
    IF status \div 100 = 4 THEN "Client error" ELSE "Server error"

ReasonPhrase(status) ==
    CASE status = 404 -> "Not Found"
      [] status = 500 -> "Internal Server Error"
      [] OTHER -> ""

\* str(e) of the HTTPStatusError of response.raise_for_status()
StatusMessage(status, url) ==
    ErrorType(status) \o " '" \o ToString(status) \o " " \o ReasonPhrase(status)
    \o "' for url '" \o url \o "'\nFor more information check: "
    \o "https://developer.mozilla.org/en-US/docs/Web/HTTP/Status/"
    \o ToString(status)

\* str(e) of an exception of client.get
TransportMessage(err) ==
    CASE err = "ConnectError" -> "All connection attempts failed"
      [] OTHER -> ""

\* response.raise_for_status() raises unless the status is 2xx
IsSuccess(status) == status \div 100 = 2

Returned(data) == [raised |-> FALSE, exc |-> "", message |-> "", data |-> data]

Raised(exc, message) ==
    [raised |-> TRUE, exc |-> exc, message |-> message,
     data |-> [form |-> "null", items |-> <<>>]]

\* the body of the `async with`, from the answer of client.get on
FetchData(name, params, resp) ==
    IF resp.kind = "failure"
    THEN Raised(resp.err, TransportMessage(resp.err))
    ELSE IF ~IsSuccess(resp.status)
    THEN Raised("HTTPStatusError",
                StatusMessage(resp.status,
                              Url(Endpoint(name)) \o QueryString(name, params)))
    ELSE IF resp.body.form = "invalid"
    THEN Raised("JSONDecodeError", "Expecting value: line 1 column 1 (char 0)")
    ELSE Returned(resp.body)

\* mutant: the client is closed only when the fetch returns
CloseClient_LeakOnError(open, client, fetched) ==
    IF fetched.raised THEN open ELSE open \ {client}

\* leaving the `async with` block closes the client, however it is left
CloseClient(open, client, fetched) == open \ {client}

\* httpx.AsyncClient(timeout=30.0): a new client object for every fetch
NewClient(log) == Cardinality(log) + 1

(***************************************************************************)
(* call_tool after the await: what the try block makes of the fetch.       *)
(***************************************************************************)
NoResult == [kind |-> "none", text |-> "", exc |-> ""]

TextResult(text) == [kind |-> "text", text |-> text, exc |-> ""]

\* an exception that leaves call_tool
Escapes(exc) == [kind |-> "raised", text |-> "", exc |-> exc]

\* mutant: only a null answer counts as no data
IsFalsy_NullOnly(data) == data.form = "null"

\* mutant: an unknown name is an error
UnknownResult_Raises(name) == Escapes("ValueError")

\* return [TextContent(type="text", text=f"Unknown tool: {name}")]
UnknownResult(name) == TextResult(UnknownTool(name))

\* `not data`
IsFalsy(data) == data.form = "null" \/ data.items = <<>>

\* mutant: the records are rendered last to first
RenderAll_Reversed(name, arguments, items) ==
    IF \E i \in DOMAIN items : ~items[i].obj
    THEN Escapes("AttributeError")
    ELSE TextResult(Header(name, Len(items), arguments)
                    \o Concat([i \in DOMAIN items |->
                                  RenderRecord(name, items[Len(items) + 1 - i].rec)]))

\* the loop over the records; record.get on an item that is no dict fails
RenderAll(name, arguments, items) ==
    IF \E i \in DOMAIN items : ~items[i].obj
    THEN Escapes("AttributeError")
    ELSE TextResult(Header(name, Len(items), arguments)
                    \o Concat([i \in DOMAIN items |-> RenderRecord(name, items[i].rec)]))

\* except httpx.HTTPError as e
Caught(exc) == exc \in HTTPErrors

HandleFetch(name, arguments, fetched) ==
    IF fetched.raised
    THEN IF Caught(fetched.exc)
         THEN TextResult(ErrorText(name, fetched.message))
         ELSE Escapes(fetched.exc)
    ELSE IF IsFalsy(fetched.data)
    THEN TextResult(NoResults(name))
    ELSE RenderAll(name, arguments, fetched.data.items)

(***************************************************************************)
(* The inputs the model draws: tool names, argument mappings, answers of   *)
(* the remote service.                                                     *)
(***************************************************************************)
\* names no branch of call_tool handles
UnknownNames == {"get_weather"}

\* a key no inputSchema declares
UndeclaredKey == "limit"

ArgValues(k) ==
    CASE k = "year" -> {IntV(2023)}
      [] k = "country_name" -> {StrV("Monaco")}
      [] k = "circuit_short_name" -> {StrV("Monza")}
      [] k = "session_name" -> {StrV("Race")}
      [] k = "session_key" -> {IntV(9158), StrV("")}
      [] k = "date_start" -> {StrV("2023-05-28")}
      [] k = "driver_number" -> {IntV(44)}
      [] k = "team_name" -> {StrV("Ferrari")}
      [] k = "lap_number" -> {IntV(8)}
      [] k = "pit_duration" -> {FloatV(300), IntV(0)}
      [] k = "overtaking_driver_number" -> {IntV(1)}
      [] k = "overtaken_driver_number" -> {IntV(16)}
      [] OTHER -> {IntV(5)}

\* every mapping from a subset of keys to the values of its keys
RECURSIVE Dicts(_)
Dicts(keys) ==
    IF keys = {} THEN {EmptyDict}
    ELSE LET k == CHOOSE x \in keys : TRUE
             rest == Dicts(keys \ {k})
         IN  rest \cup {d @@ (k :> v) : d \in rest, v \in ArgValues(k)}

ArgumentsOf(name) ==
    IF name \in ToolNames
    THEN Dicts(InputSchema(name) \cup {UndeclaredKey})
    ELSE Dicts({"session_key", UndeclaredKey})

\* a record of the remote service with every field the renderer reads
FullRecord(name) ==
    CASE name = "get_sessions" ->
           [session_key |-> IntV(9158), session_name |-> StrV("Race"),
            session_type |-> StrV("Race"), date_start |-> StrV("2023-05-28"),
            location |-> StrV("Monaco"), country_name |-> StrV("Monaco"),
            circuit_short_name |-> StrV("Monaco"), year |-> IntV(2023),
            meeting_key |-> IntV(1141)]
      [] name = "get_drivers" ->
           [driver_number |-> IntV(44), full_name |-> StrV("Lewis HAMILTON"),
            name_acronym |-> StrV("HAM"), team_name |-> StrV("Mercedes"),
            country_code |-> StrV("GBR"), headshot_url |-> StrV("https://f1/ham.png"),
            session_key |-> IntV(9158)]
      [] name = "get_laps" ->
           [lap_number |-> IntV(8), driver_number |-> IntV(44),
            session_key |-> IntV(9158), lap_duration |-> FloatV(915),
            duration_sector_1 |-> FloatV(265), duration_sector_2 |-> FloatV(386),
            duration_sector_3 |-> FloatV(264),
            segments_sector_1 |-> ListV(<<2049, 2051>>),
            segments_sector_2 |-> ListV(<<2049>>),
            segments_sector_3 |-> ListV(<<2048, 2049>>),
            i1_speed |-> IntV(307), i2_speed |-> IntV(277), st_speed |-> IntV(298),
            is_pit_out_lap |-> BoolV(TRUE), date_start |-> StrV("2023-05-28T13:05:00")]
      [] name = "get_pit_stops" ->
           [driver_number |-> IntV(44), session_key |-> IntV(9158),
            lap_number |-> IntV(8), pit_duration |-> FloatV(243),
            date |-> StrV("2023-05-28T13:20:00"), meeting_key |-> IntV(1141)]
      [] name = "get_overtakes" ->
           [overtaking_driver_number |-> IntV(1), overtaken_driver_number |-> IntV(16),
            session_key |-> IntV(9158), lap_number |-> IntV(8),
            date |-> StrV("2023-05-28T13:30:00"), meeting_key |-> IntV(1141)]

\* the falsy value of a value's type: 0, 0.0, False, "", []
Falsy(v) ==
    CASE v.t = "int" -> IntV(0)
      [] v.t = "float" -> FloatV(0)
      [] v.t = "bool" -> BoolV(FALSE)
      [] v.t = "str" -> StrV("")
      [] v.t = "list" -> ListV(<<>>)
      [] OTHER -> NoneV

Without(d, k) == [x \in DOMAIN d \ {k} |-> d[x]]

\* the full record, the empty one, and the full one with one field missing,
\* null or falsy
Records(name) ==
    LET full == FullRecord(name)
    IN  {full, EmptyDict}
        \cup {Without(full, f) : f \in DOMAIN full}
        \cup {[full EXCEPT ![f] = NoneV] : f \in DOMAIN full}
        \cup {[full EXCEPT ![f] = Falsy(full[f])] : f \in DOMAIN full}

Object(rec) == [obj |-> TRUE, rec |-> rec]

Scalar == [obj |-> FALSE, rec |-> EmptyDict]

Body(form, items) == [form |-> form, items |-> items]

\* the arrays of two records and more are built from these
ListRecords(name) == {FullRecord(name), EmptyDict}

Bodies(name) ==
    {Body("invalid", <<>>), Body("null", <<>>), Body("object", <<>>),
     Body("object", <<Scalar>>), Body("array", <<>>), Body("array", <<Scalar>>),
     Body("array", <<Object(FullRecord(name)), Scalar>>)}
    \cup {Body("array", <<Object(r)>>) : r \in Records(name)}
    \cup UNION {{Body("array", [i \in 1..n |-> Object(q[i])]) :
                    q \in [1..n -> ListRecords(name)]} : n \in 2..MaxRecords}

StatusCodes == {200, 404, 500}

\* the body of an error response is not read: one body stands for all
BodiesOf(name, status) ==
    IF name \notin ToolNames THEN {}
    ELSE IF IsSuccess(status) THEN Bodies(name)
    ELSE {Body("object", <<Scalar>>)}

TransportErrors == {"ConnectError", "ReadTimeout"}

NoResp == [kind |-> "none", err |-> "", status |-> 0, body |-> Body("null", <<>>)]

Failure(err) == [kind |-> "failure", err |-> err, status |-> 0, body |-> Body("null", <<>>)]

Response(status, body) == [kind |-> "response", err |-> "", status |-> status, body |-> body]

(***************************************************************************)
(* The state machine.  calls[c] is one call in the transport's hands: pc   *)
(* "idle" (no call), "awaiting" (suspended in client.get) or "done"        *)
(* (returned or raised); no is the call's number, gets the requests it has *)
(* issued.  openClients holds the clients not yet closed, clientLog the    *)
(* pairs <<client, call number>> of every client opened so far.            *)
(***************************************************************************)
Slots == {1}

IdleCall ==
    [pc |-> "idle", no |-> 0, name |-> "", arguments |-> EmptyDict,
     params |-> EmptyDict, client |-> 0, gets |-> <<>>, resp |-> NoResp,
     result |-> NoResult]

Init ==
    /\ calls = [c \in Slots |-> IdleCall]
    /\ callSeq = 0
    /\ openClients = {}
    /\ clientLog = {}

\* response = await client.get(url, params=params)
Request(client, name, params) ==
    [client |-> client, method |-> "GET", url |-> Url(Endpoint(name)), params |-> params]

\* call_tool up to its await: a registered tool builds its parameters, opens
\* a client and sends the request; any other name returns at once
CallTool(c, name, arguments) ==
    /\ calls[c].pc = "idle"
    /\ callSeq < MaxCalls
    /\ callSeq' = callSeq + 1
    /\ IF name \in ToolNames
       THEN LET params == BuildParams(name, arguments)
                client == NewClient(clientLog)
            IN  /\ calls' = [calls EXCEPT ![c] =
                       [pc |-> "awaiting", no |-> callSeq + 1, name |-> name,
                        arguments |-> arguments, params |-> params,
                        client |-> client,
                        gets |-> <<Request(client, name, params)>>,
                        resp |-> NoResp, result |-> NoResult]]
                /\ openClients' = openClients \cup {client}
                /\ clientLog' = clientLog \cup {<<client, callSeq + 1>>}
       ELSE /\ calls' = [calls EXCEPT ![c] =
                       [pc |-> "done", no |-> callSeq + 1, name |-> name,
                        arguments |-> arguments, params |-> EmptyDict,
                        client |-> 0, gets |-> <<>>, resp |-> NoResp,
                        result |-> UnknownResult(name)]]
            /\ UNCHANGED <<openClients, clientLog>>

\* mutant: name, arguments and params live in module-level variables, which
\* the call started last has overwritten
Frame_Shared(c) ==
    calls[CHOOSE d \in DOMAIN calls : \A e \in DOMAIN calls : calls[e].no <= calls[d].no]

\* the locals of a call (name, arguments, params, the client of its
\* `async with`): each call of the coroutine has its own
Frame(c) == calls[c]

\* the rest of fetch_data and of call_tool, run without another suspension
Resume(c, resp) ==
    LET call == Frame(c)
        fetched == FetchData(call.name, call.params, resp)
    IN  /\ calls' = [calls EXCEPT ![c].pc = "done", ![c].resp = resp,
                                  ![c].result = HandleFetch(call.name, call.arguments, fetched)]
        /\ openClients' = CloseClient(openClients, call.client, fetched)
        /\ UNCHANGED <<callSeq, clientLog>>

\* client.get raises: connection failure or timeout
RequestFails(c, err) ==
    /\ calls[c].pc = "awaiting"
    /\ Resume(c, Failure(err))

\* client.get returns a response
ResponseArrives(c, status, body) ==
    /\ calls[c].pc = "awaiting"
    /\ Resume(c, Response(status, body))

\* the transport takes the result (or the exception); the slot is free again
Return(c) ==
    /\ calls[c].pc = "done"
    /\ calls' = [calls EXCEPT ![c] = IdleCall]
    /\ UNCHANGED <<callSeq, openClients, clientLog>>

Next ==
    \/ \E c \in Slots, name \in ToolNames \cup UnknownNames :
          \E arguments \in ArgumentsOf(name) : CallTool(c, name, arguments)
    \/ \E c \in Slots, err \in TransportErrors : RequestFails(c, err)
    \/ \E c \in Slots, status \in StatusCodes :
          \E body \in BodiesOf(calls[c].name, status) : ResponseArrives(c, status, body)
    \/ \E c \in Slots : Return(c)

Spec == Init /\ [][Next]_vars

(***************************************************************************)
(* Concurrent dispatch: the transport may start a call while another is    *)
(* suspended in client.get.  Two slots, the same actions, and fewer inputs *)
(* per call: no arguments or one value for every key, and one answer of    *)
(* each kind.                                                              *)
(***************************************************************************)
ConcSlots == {1, 2}

ConcArguments(name) ==
    {EmptyDict,
     [k \in InputSchema(name) \cup {UndeclaredKey} |-> CHOOSE v \in ArgValues(k) : TRUE]}

ConcAnswers(name) ==
    IF name \notin ToolNames THEN {}
    ELSE {Response(500, Body("object", <<Scalar>>)),
          Response(200, Body("invalid", <<>>)),
          Response(200, Body("array", <<>>)),
          Response(200, Body("array", <<Object(FullRecord(name))>>)),
          Response(200, Body("array", <<Object(FullRecord(name)), Object(EmptyDict)>>))}

InitConc ==
    /\ calls = [c \in ConcSlots |-> IdleCall]
    /\ callSeq = 0
    /\ openClients = {}
    /\ clientLog = {}

NextConc ==
    \/ \E c \in ConcSlots, name \in ToolNames \cup UnknownNames :
          \E arguments \in ConcArguments(name) : CallTool(c, name, arguments)
    \/ \E c \in ConcSlots : RequestFails(c, "ReadTimeout")
    \/ \E c \in ConcSlots :
          \E answer \in ConcAnswers(calls[c].name) :
              ResponseArrives(c, answer.status, answer.body)
    \/ \E c \in ConcSlots : Return(c)

SpecConc == InitConc /\ [][NextConc]_vars

(***************************************************************************)
(* Reading a result text back: substrings, lines, record blocks.           *)
(***************************************************************************)
Contains(text, part) ==
    \E i \in 1..(Len(text) - Len(part) + 1) : SubSeq(text, i, i + Len(part) - 1) = part

StartsWith(text, prefix) ==
    Len(text) >= Len(prefix) /\ SubSeq(text, 1, Len(prefix)) = prefix

SetMin(S) == CHOOSE x \in S : \A y \in S : x <= y

RECURSIVE SortedSeq(_)
SortedSeq(S) ==
    IF S = {} THEN <<>> ELSE LET m == SetMin(S) IN <<m>> \o SortedSeq(S \ {m})

\* the lines of a text: what precedes each newline, and what follows the last
Lines(text) ==
    LET nls == SortedSeq({i \in 1..Len(text) : SubSeq(text, i, i) = "\n"})
        start(j) == IF j = 1 THEN 1 ELSE nls[j - 1] + 1
        whole == [j \in 1..Len(nls) |-> SubSeq(text, start(j), nls[j] - 1)]
        last == start(Len(nls) + 1)
    IN  IF last > Len(text) THEN whole ELSE Append(whole, SubSeq(text, last, Len(text)))

DashLine == "--------------------------------------------------"

\* the field lines of the i-th record block: the lines between the blank line
\* that follows the header (or the previous block) and the block's dash line
Block(lines, i) ==
    LET seps == SortedSeq({j \in 1..Len(lines) : lines[j] = DashLine})
        first == IF i = 1 THEN 3 ELSE seps[i - 1] + 2
    IN  SubSeq(lines, first, seps[i] - 1)

HasLine(block, label) == \E j \in 1..Len(block) : StartsWith(block[j], label)

Started(c) == calls[c].pc \in {"awaiting", "done"} /\ calls[c].name \in ToolNames

Finished(c) == calls[c].pc = "done" /\ calls[c].name \in ToolNames

\* the call got a non-empty array of objects and has rendered it
Rendered(c) ==
    /\ Finished(c)
    /\ calls[c].resp.kind = "response"
    /\ calls[c].resp.status = 200
    /\ calls[c].resp.body.form = "array"
    /\ calls[c].resp.body.items # <<>>
    /\ \A i \in DOMAIN calls[c].resp.body.items : calls[c].resp.body.items[i].obj
    /\ calls[c].result.kind = "text"

RecordOf(c, i) == calls[c].resp.body.items[i].rec

NumRecords(c) == Len(calls[c].resp.body.items)

FetchFailed(c) ==
    \/ calls[c].resp.kind = "failure"
    \/ /\ calls[c].resp.kind = "response"
       /\ \/ ~(calls[c].resp.status \in 200..299)
          \/ calls[c].resp.body.form \in {"invalid", "null", "object"}
          \/ \E i \in DOMAIN calls[c].resp.body.items : ~calls[c].resp.body.items[i].obj

NoFetchFailureEscapes ==
    \A c \in Slots :
        Finished(c) /\ FetchFailed(c) => calls[c].result.kind = "text"

(***************************************************************************)
(* C3.  A labeled field line appears in a record's block only if the field *)
(* is present in the record with a non-null, non-empty value (no           *)
(* "Session Key: None" line).                                              *)
(***************************************************************************)
\* the label each tool's renderer writes before each field
FieldLabels(name) ==
    CASE name = "get_sessions" ->
           {<<"Session Key: ", "session_key">>, <<"Name: ", "session_name">>,
            <<"Type: ", "session_type">>, <<"Date: ", "date_start">>,
            <<"Location: ", "location">>, <<"Country: ", "country_name">>,
            <<"Circuit: ", "circuit_short_name">>, <<"Year: ", "year">>,
            <<"Meeting Key: ", "meeting_key">>}
      [] name = "get_drivers" ->
           {<<"Driver Number: ", "driver_number">>, <<"Name: ", "full_name">>,
            <<"Abbreviation: ", "name_acronym">>, <<"Team: ", "team_name">>,
            <<"Country: ", "country_code">>, <<"Headshot: ", "headshot_url">>,
            <<"Session Key: ", "session_key">>}
      [] name = "get_laps" ->
           {<<"Lap Number: ", "lap_number">>, <<"Driver Number: ", "driver_number">>,
            <<"Session Key: ", "session_key">>, <<"Lap Duration: ", "lap_duration">>,
            <<"Sector 1: ", "duration_sector_1">>, <<"Sector 2: ", "duration_sector_2">>,
            <<"Sector 3: ", "duration_sector_3">>,
            <<"Sector 1 Segments: ", "segments_sector_1">>,
            <<"Sector 2 Segments: ", "segments_sector_2">>,
            <<"Sector 3 Segments: ", "segments_sector_3">>,
            <<"Speed Trap 1 (I1): ", "i1_speed">>, <<"Speed Trap 2 (I2): ", "i2_speed">>,
            <<"Speed Trap (ST): ", "st_speed">>, <<"Pit Out Lap: ", "is_pit_out_lap">>,
            <<"Start Time: ", "date_start">>}
      [] name = "get_pit_stops" ->
           {<<"Driver Number: ", "driver_number">>, <<"Session Key: ", "session_key">>,
            <<"Lap Number: ", "lap_number">>, <<"Pit Duration: ", "pit_duration">>,
            <<"Time: ", "date">>, <<"Meeting Key: ", "meeting_key">>}
      [] name = "get_overtakes" ->
           {<<"Overtaking Driver: ", "overtaking_driver_number">>,
            <<"Overtaken Driver: ", "overtaken_driver_number">>,
            <<"Session Key: ", "session_key">>, <<"Lap Number: ", "lap_number">>,
            <<"Time: ", "date">>, <<"Meeting Key: ", "meeting_key">>}

IsPresent(rec, field) == field \in DOMAIN rec /\ rec[field].t # "null"

\* neither the empty string nor the empty array
NonEmpty(v) == ~(v.t = "str" /\ v.s = "") /\ ~(v.t = "list" /\ v.l = <<>>)

LineOnlyForPresentField ==
    \A c \in Slots :
        Rendered(c) =>
            LET lines == Lines(calls[c].result.text)
            IN  \A i \in 1..NumRecords(c) :
                    \A lf \in FieldLabels(calls[c].name) :
                        HasLine(Block(lines, i), lf[1]) =>
                            /\ IsPresent(RecordOf(c, i), lf[2])
                            /\ NonEmpty(RecordOf(c, i)[lf[2]])

(***************************************************************************)
(* C4.  In get_laps output the lines of i1_speed, i2_speed, st_speed and   *)
(* is_pit_out_lap are emitted exactly when the field is present and        *)
(* non-null, also for 0 and false; a record without lap_duration has no    *)
(* "Lap Duration" line; in get_pit_stops output a pit_duration of 0 still  *)
(* has its "Pit Duration" line.                                            *)
(***************************************************************************)
PresenceGated ==
    {<<"Speed Trap 1 (I1): ", "i1_speed">>, <<"Speed Trap 2 (I2): ", "i2_speed">>,
     <<"Speed Trap (ST): ", "st_speed">>, <<"Pit Out Lap: ", "is_pit_out_lap">>}

IsZero(v) == v = IntV(0) \/ v = FloatV(0)

ZeroAndFalseAreShown ==
    \A c \in Slots :
        Rendered(c) =>
            LET lines == Lines(calls[c].result.text)
            IN  \A i \in 1..NumRecords(c) :
                    LET rec == RecordOf(c, i)
                        block == Block(lines, i)
                    IN  /\ calls[c].name = "get_laps" =>
                            /\ \A lf \in PresenceGated :
                                   HasLine(block, lf[1]) <=> IsPresent(rec, lf[2])
                            /\ "lap_duration" \notin DOMAIN rec =>
                                   ~HasLine(block, "Lap Duration")
                        /\ calls[c].name = "get_pit_stops" =>
                            (IsPresent(rec, "pit_duration") /\ IsZero(rec["pit_duration"])
                                => HasLine(block, "Pit Duration: 0"))

ZeroSpeedIsShown ==
    \E c \in Slots :
        /\ Rendered(c)
        /\ calls[c].name = "get_laps"
        /\ NumRecords(c) = 1
        /\ RecordOf(c, 1) = [FullRecord("get_laps") EXCEPT !["i1_speed"] = IntV(0)]
        /\ HasLine(Block(Lines(calls[c].result.text), 1), "Speed Trap 1 (I1): 0 km/h")

(***************************************************************************)
(* C5.  An empty record list gives exactly the tool's fixed "no ... found" *)
(* sentence, whatever the arguments: no header, no field line, no          *)
(* separator.                                                              *)
(***************************************************************************)
FixedSentence(name) ==
    CASE name = "get_sessions" -> "No sessions found matching the criteria."
      [] name = "get_drivers" -> "No drivers found matching the criteria."
      [] name = "get_laps" -> "No lap data found matching the criteria."
      [] name = "get_pit_stops" -> "No pit stop data found matching the criteria."
      [] name = "get_overtakes" -> "No overtake data found matching the criteria."

GotEmptyList(c) ==
    /\ Finished(c)
    /\ calls[c].resp.kind = "response"
    /\ calls[c].resp.status = 200
    /\ calls[c].resp.body = Body("array", <<>>)

EmptyListGivesFixedSentence ==
    \A c \in Slots :
        GotEmptyList(c) =>
            /\ calls[c].result = TextResult(FixedSentence(calls[c].name))
            /\ ~Contains(calls[c].result.text, "Found")
            /\ ~Contains(calls[c].result.text, ": ")
            /\ ~Contains(calls[c].result.text, "-")
            /\ ~Contains(calls[c].result.text, "\n")

EmptyListWithArguments ==
    \E c \in Slots :
        /\ GotEmptyList(c)
        /\ calls[c].name = "get_pit_stops"
        /\ DOMAIN calls[c].arguments = {"session_key", "driver_number", "pit_duration"}
        /\ calls[c].result.text = "No pit stop data found matching the criteria."

(***************************************************************************)
(* C6.  A call with a name that is none of the five registered names       *)
(* returns a text result saying the tool is unknown; it raises nothing     *)
(* (and sends no request).                                                 *)
(***************************************************************************)
RegisteredNames ==
    {"get_sessions", "get_drivers", "get_laps", "get_pit_stops", "get_overtakes"}

UnknownToolIsATextResult ==
    \A c \in Slots :
        calls[c].pc # "idle" /\ calls[c].name \notin RegisteredNames =>
            /\ calls[c].pc = "done"
            /\ calls[c].result.kind = "text"
            /\ StartsWith(calls[c].result.text, "Unknown tool")
            /\ Contains(calls[c].result.text, calls[c].name)
            /\ calls[c].gets = <<>>

GetWeatherIsUnknown ==
    \E c \in Slots :
        /\ calls[c].pc = "done"
        /\ calls[c].name = "get_weather"
        /\ calls[c].arguments # EmptyDict
        /\ calls[c].result = TextResult("Unknown tool: get_weather")

(***************************************************************************)
(* C7.  A call of a registered tool issues exactly one GET, to             *)
(* BASE_URL/<endpoint of the tool> with the parameters it built; after a   *)
(* failed or timed-out request there is still only that one request.       *)
(***************************************************************************)
EndpointOfTool ==
    [get_sessions |-> "sessions", get_drivers |-> "drivers", get_laps |-> "laps",
     get_pit_stops |-> "pit", get_overtakes |-> "overtakes"]

ExactlyOneGet ==
    \A c \in Slots :
        Started(c) =>
            /\ Len(calls[c].gets) = 1
            /\ calls[c].gets[1].method = "GET"
            /\ calls[c].gets[1].url =
                   "https://api.openf1.org/v1/" \o EndpointOfTool[calls[c].name]
            /\ calls[c].gets[1].params = calls[c].params

OneGetAfterTimeout ==
    \E c \in Slots :
        /\ Finished(c)
        /\ calls[c].name = "get_pit_stops"
        /\ calls[c].resp = Failure("ReadTimeout")
        /\ Len(calls[c].gets) = 1
        /\ calls[c].gets[1].url = "https://api.openf1.org/v1/pit"

(***************************************************************************)
(* C8.  The client a fetch opens is closed on every way out of the fetch:  *)
(* a call that has returned or raised holds no open client, the open       *)
(* clients are those of the suspended calls, and no client serves two      *)
(* calls.                                                                  *)
(***************************************************************************)
ClientReleased ==
    /\ \A c \in Slots : calls[c].pc = "done" => calls[c].client \notin openClients
    /\ openClients = {calls[c].client : c \in {x \in Slots : calls[x].pc = "awaiting"}}
    /\ \A p \in clientLog, q \in clientLog : p[1] = q[1] => p[2] = q[2]
    /\ \A c \in Slots : Started(c) => <<calls[c].client, calls[c].no>> \in clientLog

ClosedAfterParseFailure ==
    \E c \in Slots :
        /\ Finished(c)
        /\ calls[c].no = 2
        /\ calls[c].result.exc = "JSONDecodeError"
        /\ Cardinality(clientLog) = 2
        /\ openClients = {}

(***************************************************************************)
(* C9.  The header of a non-empty result is "Found N <noun>(s)<clause>:",  *)
(* N the number of records.  As claimed: for all five tools the clause is  *)
(* " for " and the comma-joined fragments of every non-empty filtering     *)
(* argument supplied, and is empty exactly when none was supplied.         *)
(***************************************************************************)
Noun(name) ==
    CASE name = "get_sessions" -> "session"
      [] name = "get_drivers" -> "driver"
      [] name = "get_laps" -> "lap"
      [] name = "get_pit_stops" -> "pit stop"
      [] name = "get_overtakes" -> "overtake"

HeaderLine(c) == Lines(calls[c].result.text)[1]

HeaderStart(c) == "Found " \o ToString(NumRecords(c)) \o " " \o Noun(calls[c].name) \o "(s)"

\* what stands between "Found N <noun>(s)" and the final ":"
Clause(c) ==
    LET line == HeaderLine(c)
    IN  SubSeq(line, Len(HeaderStart(c)) + 1, Len(line) - 1)

WellFormedHeader(c) ==
    LET line == HeaderLine(c)
    IN  /\ StartsWith(line, HeaderStart(c))
        /\ SubSeq(line, Len(line), Len(line)) = ":"

\* the filtering arguments supplied with a non-empty value
SuppliedFilters(c) ==
    {k \in DOMAIN calls[c].arguments \cap InputSchema(calls[c].name) :
        calls[c].arguments[k].t # "null" /\ NonEmpty(calls[c].arguments[k])}

HeaderNamesEveryFilter ==
    \A c \in Slots :
        Rendered(c) =>
            LET clause == Clause(c)
            IN  /\ WellFormedHeader(c)
                /\ clause = "" <=> SuppliedFilters(c) = {}
                /\ clause # "" =>
                       /\ StartsWith(clause, " for ")
                       /\ \A k \in SuppliedFilters(c) :
                              Contains(clause, PyStr(calls[c].arguments[k]))

(***************************************************************************)
(* C9 as amended.  N is the number of records for all five tools.  The     *)
(* clause of get_laps, get_pit_stops and get_overtakes is " for " and the  *)
(* comma-joined fragments of every declared argument present in the call   *)
(* (whatever its value), and is empty exactly when none is present; the    *)
(* clause of get_drivers is " for session <session_key>" when session_key  *)
(* is present and empty otherwise; get_sessions has no clause.             *)
(***************************************************************************)
\* the fragment of each argument: <<key, text before the value, text after>>
FragmentsOf(name) ==
    CASE name = "get_sessions" -> <<>>
      [] name = "get_drivers" -> << <<"session_key", "session ", "">> >>
      [] name = "get_laps" ->
           << <<"session_key", "session ", "">>, <<"driver_number", "driver #", "">>,
              <<"lap_number", "lap ", "">> >>
      [] name = "get_pit_stops" ->
           << <<"session_key", "session ", "">>, <<"driver_number", "driver #", "">>,
              <<"pit_duration", "duration <= ", "s">> >>
      [] name = "get_overtakes" ->
           << <<"session_key", "session ", "">>,
              <<"overtaking_driver_number", "overtaking driver #", "">>,
              <<"overtaken_driver_number", "overtaken driver #", "">> >>

ExpectedClause(name, arguments) ==
    LET present == SelectSeq(FragmentsOf(name), LAMBDA f : f[1] \in DOMAIN arguments)
        texts == [i \in 1..Len(present) |->
                    present[i][2] \o PyStr(arguments[present[i][1]]) \o present[i][3]]
    IN  IF texts = <<>> THEN "" ELSE " for " \o Join(texts, ", ")

HeaderNamesPresentFilters ==
    \A c \in Slots :
        Rendered(c) =>
            LET clause == Clause(c)
            IN  /\ WellFormedHeader(c)
                /\ clause = ExpectedClause(calls[c].name, calls[c].arguments)
                /\ calls[c].name \in {"get_laps", "get_pit_stops", "get_overtakes"} =>
                       (clause = "" <=>
                            DOMAIN calls[c].arguments \cap InputSchema(calls[c].name) = {})

TwoLapsHeader ==
    \E c \in Slots :
        /\ Rendered(c)
        /\ calls[c].name = "get_laps"
        /\ NumRecords(c) = 2
        /\ calls[c].arguments = [session_key |-> IntV(9158), driver_number |-> IntV(44)]
        /\ HeaderLine(c) = "Found 2 lap(s) for session 9158, driver #44:"

(***************************************************************************)
(* C10.  When the remote service answers a registered tool's request with  *)
(* a non-2xx status (HTTP 500), the call returns a text that contains      *)
(* "Error" and the name of the tool's endpoint; nothing is raised.         *)
(***************************************************************************)
GotErrorStatus(c) ==
    /\ Finished(c)
    /\ calls[c].resp.kind = "response"
    /\ ~(calls[c].resp.status \in 200..299)

StatusErrorIsReported ==
    \A c \in Slots :
        GotErrorStatus(c) =>
            /\ calls[c].result.kind = "text"
            /\ Contains(calls[c].result.text, "Error")
            /\ Contains(calls[c].result.text, EndpointOfTool[calls[c].name])

LapsServerError ==
    \E c \in Slots :
        /\ GotErrorStatus(c)
        /\ calls[c].name = "get_laps"
        /\ calls[c].resp.status = 500
        /\ StartsWith(calls[c].result.text, "Error fetching lap data: Server error '500")
        /\ Contains(calls[c].result.text, "/laps")

(***************************************************************************)
(* C11.  Tool calls are independent: however the calls in flight           *)
(* interleave at their suspension point, and whatever calls came before    *)
(* (failed ones too), a call's result is the one the call gives when run   *)
(* alone with the same name, arguments and answer of the remote service;   *)
(* a call keeps the parameters and the request it built, and a step of one *)
(* call changes nothing of another call.                                   *)
(***************************************************************************)
\* the result of a call run alone
SoloResult(name, arguments, resp) ==
    IF name \in RegisteredNames
    THEN HandleFetch(name, arguments, FetchData(name, BuildParams(name, arguments), resp))
    ELSE TextResult("Unknown tool: " \o name)

CallsKeepOwnResult ==
    /\ \A c \in DOMAIN calls :
           /\ calls[c].pc = "done" =>
                  calls[c].result =
                      SoloResult(calls[c].name, calls[c].arguments, calls[c].resp)
           /\ Started(c) =>
                  /\ calls[c].params = BuildParams(calls[c].name, calls[c].arguments)
                  /\ calls[c].gets =
                         <<Request(calls[c].client, calls[c].name, calls[c].params)>>
    /\ \A c \in DOMAIN calls, d \in DOMAIN calls :
           /\ calls[c].pc = "done"
           /\ calls[d].pc = "done"
           /\ calls[c].name = calls[d].name
           /\ calls[c].arguments = calls[d].arguments
           /\ calls[c].resp = calls[d].resp
           => calls[c].result = calls[d].result

StepTouchesOneCall ==
    \A c \in DOMAIN calls, d \in DOMAIN calls :
        c # d /\ calls'[c] # calls[c] => calls'[d] = calls[d]

CallsAreIndependent == []CallsKeepOwnResult /\ [][StepTouchesOneCall]_vars

\* the second call has started and finished while the first is suspended
FinishedWhileOtherSuspended ==
    /\ DOMAIN calls = {1, 2}
    /\ calls[2].no = 1
    /\ calls[2].pc = "awaiting"
    /\ calls[2].name = "get_pit_stops"
    /\ calls[1].no = 2
    /\ calls[1].pc = "done"
    /\ calls[1].name = "get_laps"
    /\ calls[1].arguments # EmptyDict
    /\ calls[1].resp.status = 500
    /\ Contains(calls[1].result.text, "/laps?session_key=9158&driver_number=44&lap_number=8")

(***************************************************************************)
(* C12.  After the header the output is one block per record, in the order *)
(* of the response; the field lines of a block follow the tool's declared  *)
(* order; every block ends with a line of exactly 50 dashes and a blank    *)
(* line, so N records give exactly N separator lines.                      *)
(***************************************************************************)
\* the declared field lines of each tool: <<label, field, text after the value>>
DeclaredLines(name) ==
    CASE name = "get_sessions" ->
           << <<"Session Key: ", "session_key", "">>, <<"Name: ", "session_name", "">>,
              <<"Type: ", "session_type", "">>, <<"Date: ", "date_start", "">>,
              <<"Location: ", "location", "">>, <<"Country: ", "country_name", "">>,
              <<"Circuit: ", "circuit_short_name", "">>, <<"Year: ", "year", "">>,
              <<"Meeting Key: ", "meeting_key", "">> >>
      [] name = "get_drivers" ->
           << <<"Driver Number: ", "driver_number", "">>, <<"Name: ", "full_name", "">>,
              <<"Abbreviation: ", "name_acronym", "">>, <<"Team: ", "team_name", "">>,
              <<"Country: ", "country_code", "">>, <<"Headshot: ", "headshot_url", "">>,
              <<"Session Key: ", "session_key", "">> >>
      [] name = "get_laps" ->
           << <<"Lap Number: ", "lap_number", "">>,
              <<"Driver Number: ", "driver_number", "">>,
              <<"Session Key: ", "session_key", "">>,
              <<"Lap Duration: ", "lap_duration", " seconds">>,
              <<"Sector 1: ", "duration_sector_1", " seconds">>,
              <<"Sector 2: ", "duration_sector_2", " seconds">>,
              <<"Sector 3: ", "duration_sector_3", " seconds">>,
              <<"Sector 1 Segments: ", "segments_sector_1", "">>,
              <<"Sector 2 Segments: ", "segments_sector_2", "">>,
              <<"Sector 3 Segments: ", "segments_sector_3", "">>,
              <<"Speed Trap 1 (I1): ", "i1_speed", " km/h">>,
              <<"Speed Trap 2 (I2): ", "i2_speed", " km/h">>,
              <<"Speed Trap (ST): ", "st_speed", " km/h">>,
              <<"Pit Out Lap: ", "is_pit_out_lap", "">>,
              <<"Start Time: ", "date_start", "">> >>
      [] name = "get_pit_stops" ->
           << <<"Driver Number: ", "driver_number", "">>,
              <<"Session Key: ", "session_key", "">>,
              <<"Lap Number: ", "lap_number", "">>,
              <<"Pit Duration: ", "pit_duration", " seconds">>,
              <<"Time: ", "date", "">>, <<"Meeting Key: ", "meeting_key", "">> >>
      [] name = "get_overtakes" ->
           << <<"Overtaking Driver: #", "overtaking_driver_number", "">>,
              <<"Overtaken Driver: #", "overtaken_driver_number", "">>,
              <<"Session Key: ", "session_key", "">>,
              <<"Lap Number: ", "lap_number", "">>,
              <<"Time: ", "date", "">>, <<"Meeting Key: ", "meeting_key", "">> >>

\* the line a declared entry gives for a record
DeclaredLine(entry, rec) == entry[1] \o PyStr(Get(rec, entry[2])) \o entry[3]

\* the declared entries whose label starts the line
EntriesOf(line, declared) ==
    {k \in 1..Len(declared) : StartsWith(line, declared[k][1])}

\* the block holds lines of the record only, each of one declared entry, in
\* the declared order
InDeclaredOrder(block, declared, rec) ==
    /\ \A j \in 1..Len(block) :
           /\ Cardinality(EntriesOf(block[j], declared)) = 1
           /\ \A k \in EntriesOf(block[j], declared) :
                  block[j] = DeclaredLine(declared[k], rec)
    /\ \A j \in 1..(Len(block) - 1) :
           \A k \in EntriesOf(block[j], declared), m \in EntriesOf(block[j + 1], declared) :
               k < m

SeparatorLines(lines) == {j \in 1..Len(lines) : lines[j] = DashLine}

BlocksFollowResponse ==
    \A c \in Slots :
        Rendered(c) =>
            LET lines == Lines(calls[c].result.text)
                seps == SeparatorLines(lines)
            IN  /\ Len(DashLine) = 50
                /\ Cardinality(seps) = NumRecords(c)
                /\ \A j \in 1..Len(lines) : StartsWith(lines[j], "-") => j \in seps
                /\ \A j \in seps : j < Len(lines) /\ lines[j + 1] = ""
                /\ \A j \in seps : j + 1 = Len(lines) \/ lines[j + 2] # ""
                /\ Len(lines) \in {j + 1 : j \in seps}
                /\ lines[2] = ""
                /\ \A i \in 1..NumRecords(c) :
                       InDeclaredOrder(Block(lines, i), DeclaredLines(calls[c].name),
                                       RecordOf(c, i))

\* the scenario of one Monaco session, and a response of two different records
MonacoSessionBlock ==
    \E c \in Slots :
        /\ Rendered(c)
        /\ calls[c].name = "get_sessions"
        /\ calls[c].arguments = [year |-> IntV(2023), country_name |-> StrV("Monaco")]
        /\ calls[c].result.text =
               "Found 1 session(s):\n\nSession Key: 9158\nName: Race\nType: Race\n"
               \o "Date: 2023-05-28\nLocation: Monaco\nCountry: Monaco\n"
               \o "Circuit: Monaco\nYear: 2023\nMeeting Key: 1141\n"
               \o "--------------------------------------------------\n\n"

====
